---- MODULE Spec2Model ----
(***************************************************************************)
(* A model of the FJE star-style JSON renderer: the node tree built by     *)
(* JSONNodeFactory (src/fje/node.py), the GridWidthVisitor and             *)
(* FirstLastVisitor analysis passes, and RenderVisitor / StarStyledJSONNode*)
(* (src/fje/style/star_style.py).                                          *)
(*                                                                         *)
(* Box-drawing glyphs are written with one-character ASCII stand-ins, so   *)
(* that Len of a line is its number of characters as in Python:            *)
(*   "-" for U+2500, "|" for U+2502, "+" for U+251C, "^" for U+2534,       *)
(*   "]" for U+2524.                                                       *)
(***************************************************************************)
EXTENDS Integers, Sequences, FiniteSets, TLC

VARIABLES
    filepath,            \* the input: [isfile, json_data] (what json.load returns)
    icon_family,         \* [composite_icon, leaf_icon]
    id,                  \* node.py module-level counter `id`
    nodes,               \* the heap of JSONNode objects, keyed by _id
    roots,               \* the roots returned by JSONNodeFactory.create, in call order
    pc,                  \* position of the program
    root,                \* StarStyledJSONNode._root (None before construction)
    grid_width_visitor,  \* StarStyledJSONNode.grid_width_visitor (None before)
    fl_visitor,          \* StarStyledJSONNode.fl_visitor (None before)
    render_visitor,      \* the RenderVisitor of render() (None before)
    stack,               \* pending accept() calls of the running traversal
    visited,             \* history: per pass, the ids visited so far, in order
    output               \* stdout: the printed lines, in order

vars == <<filepath, icon_family, id, nodes, roots, pc, root, grid_width_visitor,
          fl_visitor, render_visitor, stack, visited, output>>

\* ---------------------------------------------------------------- bounds
MaxNodes == 5    \* most nodes (root included) of an input document
MaxBuilds == 2   \* most calls of JSONNodeFactory.create in one process

\* ---------------------------------------------------------------- Python values
None == [none |-> TRUE]
Some(x) == [none |-> FALSE, v |-> x]

Max(a, b) == IF a >= b THEN a ELSE b

\* ---------------------------------------------------------------- parsed JSON
\* What json.load returns: None, int, bool, str, list or dict (insertion-ordered).
JNull == [t |-> "null"]
JInt(n) == [t |-> "int", n |-> n]
JBool(b) == [t |-> "bool", b |-> b]
JStr(s) == [t |-> "str", s |-> s]
JList(items) == [t |-> "list", items |-> items]
JDict(items) == [t |-> "dict", items |-> items]   \* items: <<key, value>> pairs

Scalars == {JNull, JInt(12)}
Keys == {"a"}

RECURSIVE ValuesOfSize(_), ItemsOfSize(_), PairsOfSize(_, _)
\* the JSON values made of exactly n nodes
ValuesOfSize(n) ==
    IF n < 1 THEN {}
    ELSE (IF n = 1 THEN Scalars ELSE {})
         \cup {JList(s) : s \in ItemsOfSize(n - 1)}
         \cup {JDict(s) : s \in PairsOfSize(n - 1, Keys)}
\* the sequences of values with n nodes in all
ItemsOfSize(n) ==
    IF n = 0 THEN {<<>>}
    ELSE UNION {{<<v>> \o s : v \in ValuesOfSize(k), s \in ItemsOfSize(n - k)} : k \in 1..n}
\* the sequences of <<key, value>> with n nodes in all and distinct keys from ks
PairsOfSize(n, ks) ==
    IF n = 0 THEN {<<>>}
    ELSE UNION {{<< <<key, v>> >> \o s : v \in ValuesOfSize(k),
                                       s \in PairsOfSize(n - k, ks \ {key})}
                : k \in 1..n, key \in ks}

Documents == UNION {ValuesOfSize(n) : n \in 1..MaxNodes}

\* ---------------------------------------------------------------- node.py: the tree
IsContainer(obj) == obj.t \in {"list", "dict"}

\* the module counter after one JSONNode.__init__
NextId(ctr) == ctr + 1

\* JSONComposite.__init__ / JSONLeaf.__init__ with the counter at ctr
JSONComposite(name, level, ctr) ==
    [cls |-> "JSONComposite", name |-> name, level |-> level, id |-> ctr,
     children |-> <<>>, value |-> None]
JSONLeaf(name, level, value, ctr) ==
    [cls |-> "JSONLeaf", name |-> name, level |-> level, id |-> ctr,
     children |-> <<>>, value |-> value]

is_leaf(node) == node.cls = "JSONLeaf"
is_root(node) == node.level = 0

\* JSONComposite.add_child on the heap
add_child(heap, comp, child) ==
    [heap EXCEPT ![comp].children = Append(@, child)]

\* Python's str() of a JSON scalar
Str(obj) ==
    CASE obj.t = "int" -> ToString(obj.n)
      [] obj.t = "bool" -> (IF obj.b THEN "True" ELSE "False")
      [] obj.t = "str" -> obj.s

\* f'Array[{idx}]'
ArrayName(idx) == "Array[" \o ToString(idx) \o "]"

\* mutant: the child is given the level of its parent
ChildLevelSame(level) == level

\* the level _create_composite_from_list / _from_dict give a child
ChildLevel(level) == level + 1

\* A build returns [heap, id, node]: the heap and the counter after it, and the
\* id of the node it made.
create_leaf(name, level, obj, heap, ctr) ==
    LET leaf == IF obj.t = "null" THEN JSONLeaf(name, level, None, ctr)
                ELSE JSONLeaf(name, level, Some(Str(obj)), ctr)
    IN [heap |-> heap @@ (ctr :> leaf), id |-> NextId(ctr), node |-> ctr]

RECURSIVE create(_, _, _, _, _), ListLoop(_, _, _, _, _, _), DictLoop(_, _, _, _, _, _)
RECURSIVE ListLoopIdForIdx(_, _, _, _, _, _)

\* mutant: the item is named after the module counter id, not after idx
ListLoopIdForIdx(comp, level, items, i, heap, ctr) ==
    IF i > Len(items) THEN [heap |-> heap, id |-> ctr, node |-> comp]
    ELSE LET r == create(ArrayName(ctr), ChildLevel(level), items[i], heap, ctr)
         IN ListLoopIdForIdx(comp, level, items, i + 1,
                             add_child(r.heap, comp, r.node), r.id)

\* for idx, item in enumerate(obj): from the i-th item on (1-based i, idx = i - 1)
ListLoop(comp, level, items, i, heap, ctr) ==
    IF i > Len(items) THEN [heap |-> heap, id |-> ctr, node |-> comp]
    ELSE LET r == create(ArrayName(i - 1), ChildLevel(level), items[i], heap, ctr)
         IN ListLoop(comp, level, items, i + 1, add_child(r.heap, comp, r.node), r.id)

\* for key, value in obj.items(): from the i-th pair on
DictLoop(comp, level, items, i, heap, ctr) ==
    IF i > Len(items) THEN [heap |-> heap, id |-> ctr, node |-> comp]
    ELSE LET r == create(items[i][1], ChildLevel(level), items[i][2], heap, ctr)
         IN DictLoop(comp, level, items, i + 1, add_child(r.heap, comp, r.node), r.id)

create_composite_from_list(name, level, obj, heap, ctr) ==
    ListLoop(ctr, level, obj.items, 1,
             heap @@ (ctr :> JSONComposite(name, level, ctr)), NextId(ctr))

create_composite_from_dict(name, level, obj, heap, ctr) ==
    DictLoop(ctr, level, obj.items, 1,
             heap @@ (ctr :> JSONComposite(name, level, ctr)), NextId(ctr))

\* JSONNodeFactory._create
create(name, level, obj, heap, ctr) ==
    IF obj.t = "list" THEN create_composite_from_list(name, level, obj, heap, ctr)
    ELSE IF obj.t = "dict" THEN create_composite_from_dict(name, level, obj, heap, ctr)
    ELSE create_leaf(name, level, obj, heap, ctr)

\* ---------------------------------------------------------------- node.py: visitors
\* mutant: grid_width is overwritten by the width of the node, no running maximum
update_grid_width_overwrite(grid_width, node) ==
    Max((node.level - 1) * 3 + 2, 0) + Len(node.name) + 2
    + (IF is_leaf(node) /\ node.value # None THEN Len(node.value.v) + 2 ELSE 0)
    + 4 + 2

\* mutant: the two columns of the closing segment are not counted
update_grid_width_no_closing(grid_width, node) ==
    Max(grid_width,
        Max((node.level - 1) * 3 + 2, 0) + Len(node.name) + 2
        + (IF is_leaf(node) /\ node.value # None THEN Len(node.value.v) + 2 ELSE 0)
        + 4)

\* GridWidthVisitor.update_grid_width: the new grid_width
update_grid_width(grid_width, node) ==
    LET prefix_length == Max((node.level - 1) * 3 + 2, 0)
        name_length == Len(node.name) + 2
                       + (IF is_leaf(node) /\ node.value # None
                          THEN Len(node.value.v) + 2 ELSE 0)
                       + 4
    IN Max(grid_width, prefix_length + name_length + 2)

\* mutant: visit_composite does not record last_id
fl_visit_leaf_last(fl, node) ==
    IF ~fl.first_visited
    THEN [first_visited |-> TRUE, first_id |-> Some(node.id),
          last_id |-> IF is_leaf(node) THEN Some(node.id) ELSE None]
    ELSE IF is_leaf(node) THEN [fl EXCEPT !.last_id = Some(node.id)] ELSE fl

\* mutant: first_id is recorded at every visit
fl_visit_first_always(fl, node) ==
    [first_visited |-> TRUE, first_id |-> Some(node.id), last_id |-> Some(node.id)]

\* FirstLastVisitor.visit_composite / visit_leaf: the visitor after the visit
fl_visit(fl, node) ==
    IF ~fl.first_visited
    THEN [first_visited |-> TRUE, first_id |-> Some(node.id), last_id |-> Some(node.id)]
    ELSE [fl EXCEPT !.last_id = Some(node.id)]

is_first(fl, node) == Some(node.id) = fl.first_id
is_last(fl, node) == Some(node.id) = fl.last_id

\* ---------------------------------------------------------------- star_style.py
RECURSIVE Repeat(_, _)
\* Python's str * n
Repeat(s, n) == IF n <= 0 THEN "" ELSE s \o Repeat(s, n - 1)

\* Python's str.ljust(width, fillchar)
ljust(s, width, fillchar) ==
    IF Len(s) >= width THEN s ELSE s \o Repeat(fillchar, width - Len(s))

\* which branch of "first layer" render_node takes
OpeningBranch(fl, node) ==
    IF is_first(fl, node) THEN "first"
    ELSE IF is_last(fl, node) THEN "last"
    ELSE IF node.level = 1 THEN "level1"
    ELSE "inner"

\* which branch of "last layer" render_node takes
ClosingBranch(fl, node) ==
    IF is_first(fl, node) THEN "first"
    ELSE IF is_last(fl, node) THEN "last"
    ELSE "other"

\* RenderVisitor.render_node for a non-root node: the printed text
render_node(rv, fl, node) ==
    LET opening == OpeningBranch(fl, node)
        first_layer == CASE opening = "first" -> "--"
                         [] opening = "last" -> "--"
                         [] opening = "level1" -> "+-"
                         [] OTHER -> "| "
        straight == IF node.level > 2
                    THEN (IF is_last(fl, node) THEN Repeat("-^-", node.level - 2)
                          ELSE Repeat(" | ", node.level - 2))
                    ELSE ""
        header == IF is_last(fl, node) THEN "-^-"
                  ELSE IF node.level > 1 THEN " +-"
                  ELSE ""
        icon == IF is_leaf(node) THEN rv.icon_family.leaf_icon
                ELSE rv.icon_family.composite_icon
        stars == "* " \o node.name \o " *"
        value == IF is_leaf(node) /\ node.value # None THEN ": " \o node.value.v ELSE ""
        padded == ljust(first_layer \o straight \o header \o icon \o stars \o value \o " ",
                        rv.grid_width - 2, "-")
        closing == ClosingBranch(fl, node)
        last_layer == CASE closing = "first" -> "--"
                        [] closing = "last" -> "--"
                        [] OTHER -> "-]"
    IN padded \o last_layer

\* StyledJSONBuilder._icon_families['poker-face-icon-family'], with "D" for
\* U+2666 and "S" for U+2660
IconFamilies == {[composite_icon |-> "D", leaf_icon |-> "S"]}

\* GridWidthVisitor.__init__ / FirstLastVisitor.__init__
GridWidthVisitor == [grid_width |-> 16]
FirstLastVisitor == [first_visited |-> FALSE, first_id |-> None, last_id |-> None]

\* mutant: the renderer is given the grid_width of a fresh GridWidthVisitor
RenderVisitorFresh(grid_width, icons) ==
    [grid_width |-> GridWidthVisitor.grid_width, icon_family |-> icons]

\* RenderVisitor.__init__: grid_width is copied, fl_visitor is shared
RenderVisitor(grid_width, icons) == [grid_width |-> grid_width, icon_family |-> icons]

\* ---------------------------------------------------------------- traversal
\* mutant: the children are visited after the pending siblings
accept_siblings_first(heap, stk) == Tail(stk) \o heap[Head(stk)].children

\* JSONComposite.accept / JSONLeaf.accept, one visit at a time: stk holds the
\* pending accept() calls, the head is visited next; after its visit the pending
\* calls are those of its children, in stored order, and then the rest.
accept(heap, stk) == heap[Head(stk)].children \o Tail(stk)

\* the accept() call on the root has returned
Returned(stk) == stk = <<>>

\* ---------------------------------------------------------------- the program
\* mutant: the root is not checked
RootAcceptedAlways(json_data) == TRUE

\* the check of the root in JSONNodeFactory.__init__
RootAccepted(json_data) == IsContainer(json_data)

Init ==
    /\ filepath \in [isfile : {TRUE}, json_data : Documents]
                    \cup {[isfile |-> FALSE, json_data |-> JNull]}
    /\ icon_family \in IconFamilies
    /\ id = 0
    /\ nodes = [i \in {} |-> None]
    /\ roots = <<>>
    /\ pc = "start"
    /\ root = None
    /\ grid_width_visitor = None
    /\ fl_visitor = None
    /\ render_visitor = None
    /\ stack = <<>>
    /\ visited = [width |-> <<>>, firstlast |-> <<>>, render |-> <<>>]
    /\ output = <<>>

\* JSONNodeFactory.__init__: raises FJEException for a missing file or a root that
\* is neither dict nor list
FactoryInit ==
    /\ pc = "start"
    /\ pc' = IF ~filepath.isfile THEN "error"
             ELSE IF ~RootAccepted(filepath.json_data) THEN "error"
             ELSE "factory"
    /\ UNCHANGED <<filepath, icon_family, id, nodes, roots, root, grid_width_visitor,
                   fl_visitor, render_visitor, stack, visited, output>>

\* JSONNodeFactory.create
Create ==
    /\ pc = "factory"
    /\ Len(roots) < MaxBuilds
    /\ LET r == create("", 0, filepath.json_data, nodes, id)
       IN /\ nodes' = r.heap
          /\ id' = r.id
          /\ roots' = Append(roots, r.node)
    /\ UNCHANGED <<filepath, icon_family, pc, root, grid_width_visitor, fl_visitor,
                   render_visitor, stack, visited, output>>

\* StarStyledJSONNode.__init__ on the tree just built, up to the first accept()
NewStarStyled ==
    /\ pc = "factory"
    /\ roots # <<>>
    /\ root' = Some(roots[Len(roots)])
    /\ grid_width_visitor' = GridWidthVisitor
    /\ stack' = <<roots[Len(roots)]>>
    /\ pc' = "width"
    /\ UNCHANGED <<filepath, icon_family, id, nodes, roots, fl_visitor, render_visitor,
                   visited, output>>

\* one visit of root.accept(self.grid_width_visitor)
WidthVisit ==
    /\ pc = "width"
    /\ ~Returned(stack)
    /\ grid_width_visitor' =
           [grid_width |-> update_grid_width(grid_width_visitor.grid_width,
                                             nodes[Head(stack)])]
    /\ visited' = [visited EXCEPT !.width = Append(@, Head(stack))]
    /\ stack' = accept(nodes, stack)
    /\ UNCHANGED <<filepath, icon_family, id, nodes, roots, pc, root, fl_visitor,
                   render_visitor, output>>

\* StarStyledJSONNode.__init__: the first pass is over, the second begins
NewFirstLast ==
    /\ pc = "width"
    /\ Returned(stack)
    /\ fl_visitor' = FirstLastVisitor
    /\ stack' = <<root.v>>
    /\ pc' = "firstlast"
    /\ UNCHANGED <<filepath, icon_family, id, nodes, roots, root, grid_width_visitor,
                   render_visitor, visited, output>>

\* one visit of root.accept(self.fl_visitor)
FirstLastVisit ==
    /\ pc = "firstlast"
    /\ ~Returned(stack)
    /\ fl_visitor' = fl_visit(fl_visitor, nodes[Head(stack)])
    /\ visited' = [visited EXCEPT !.firstlast = Append(@, Head(stack))]
    /\ stack' = accept(nodes, stack)
    /\ UNCHANGED <<filepath, icon_family, id, nodes, roots, pc, root,
                   grid_width_visitor, render_visitor, output>>

\* StarStyledJSONNode.__init__ returns
Styled ==
    /\ pc = "firstlast"
    /\ Returned(stack)
    /\ pc' = "styled"
    /\ UNCHANGED <<filepath, icon_family, id, nodes, roots, root, grid_width_visitor,
                   fl_visitor, render_visitor, stack, visited, output>>

\* StarStyledJSONNode.render, up to the accept()
Render ==
    /\ pc = "styled"
    /\ render_visitor' = RenderVisitor(grid_width_visitor.grid_width, icon_family)
    /\ stack' = <<root.v>>
    /\ pc' = "render"
    /\ UNCHANGED <<filepath, icon_family, id, nodes, roots, root, grid_width_visitor,
                   fl_visitor, visited, output>>

\* the line render_node prints for a node, with the node and the branches taken
\* recorded beside the text
Printed(rv, fl, node) ==
    [line |-> render_node(rv, fl, node), node |-> node.id,
     opening |-> OpeningBranch(fl, node), closing |-> ClosingBranch(fl, node)]

\* one visit of self._root.accept(render_visitor): render_node returns at once
\* for the root and prints one line otherwise
RenderVisit ==
    /\ pc = "render"
    /\ ~Returned(stack)
    /\ output' = IF is_root(nodes[Head(stack)]) THEN output
                 ELSE Append(output, Printed(render_visitor, fl_visitor, nodes[Head(stack)]))
    /\ visited' = [visited EXCEPT !.render = Append(@, Head(stack))]
    /\ stack' = accept(nodes, stack)
    /\ UNCHANGED <<filepath, icon_family, id, nodes, roots, pc, root,
                   grid_width_visitor, fl_visitor, render_visitor>>

\* StarStyledJSONNode.render returns
RenderReturn ==
    /\ pc = "render"
    /\ Returned(stack)
    /\ pc' = "done"
    /\ UNCHANGED <<filepath, icon_family, id, nodes, roots, root, grid_width_visitor,
                   fl_visitor, render_visitor, stack, visited, output>>

Next ==
    \/ FactoryInit
    \/ Create
    \/ NewStarStyled
    \/ WidthVisit
    \/ NewFirstLast
    \/ FirstLastVisit
    \/ Styled
    \/ Render
    \/ RenderVisit
    \/ RenderReturn

Spec == Init /\ [][Next]_vars

\* ---------------------------------------------------------------- trees, for the properties
Range(seq) == {seq[i] : i \in 1..Len(seq)}
IsPrefix(a, b) == Len(a) <= Len(b) /\ a = SubSeq(b, 1, Len(a))

RECURSIVE PreOrder(_, _), PreOrderOfAll(_, _, _)
\* the subtree of n in pre-order: n, then the subtrees of its children in stored order
PreOrder(heap, n) == <<n>> \o PreOrderOfAll(heap, heap[n].children, 1)
PreOrderOfAll(heap, cs, i) ==
    IF i > Len(cs) THEN <<>>
    ELSE PreOrder(heap, cs[i]) \o PreOrderOfAll(heap, cs, i + 1)

Tree(r) == Range(PreOrder(nodes, r))

RECURSIVE LastChain(_, _)
\* follow the last child while the node has children
LastChain(heap, n) ==
    IF heap[n].children = <<>> THEN n
    ELSE LastChain(heap, heap[n].children[Len(heap[n].children)])

RECURSIVE WidthOfAll(_, _, _, _)
\* the grid_width a whole GridWidthVisitor traversal of the subtrees cs[i..] ends
\* with, when it starts from grid_width
WidthOfAll(heap, cs, i, grid_width) ==
    IF i > Len(cs) THEN grid_width
    ELSE WidthOfAll(heap, cs, i + 1,
                    WidthOfAll(heap, heap[cs[i]].children, 1,
                               update_grid_width(grid_width, heap[cs[i]])))

\* the grid_width of a whole document: built on a fresh heap, then traversed
WidthOfDocument(json_data) ==
    LET r == create("", 0, json_data, [i \in {} |-> None], 0)
    IN WidthOfAll(r.heap, <<r.node>>, 1, GridWidthVisitor.grid_width)

Analysed == pc \in {"styled", "render", "done"}

\* ---------------------------------------------------------------- C1, C10
\* C1 (as claimed): every printed line has exactly grid_width characters, the
\* line of the globally-last node at level 1 included.
C1_EveryLineHasGridWidth ==
    \A i \in 1..Len(output) :
        Len(output[i].line) = grid_width_visitor.grid_width

\* C10: a line of a node that is not the globally-last one has exactly grid_width
\* characters; every line has at least grid_width characters; a line is longer
\* only for the globally-last node at level 1.
C10_LineLengths ==
    \A i \in 1..Len(output) :
        LET node == nodes[output[i].node]
            n == Len(output[i].line)
            grid_width == grid_width_visitor.grid_width
        IN /\ n >= grid_width
           /\ ~is_last(fl_visitor, node) => n = grid_width
           /\ n > grid_width => is_last(fl_visitor, node) /\ node.level = 1

C10_Witness ==
    /\ pc = "done"
    /\ \E i, j \in 1..Len(output) :
           /\ Len(output[i].line) > grid_width_visitor.grid_width
           /\ Len(output[j].line) = grid_width_visitor.grid_width
           /\ nodes[output[j].node].level >= 3
           /\ grid_width_visitor.grid_width > GridWidthVisitor.grid_width

\* ---------------------------------------------------------------- C2
\* the field f of the nodes of a pre-order po, in that order
Field(po, f) == [i \in 1..Len(po) |-> nodes[po[i]][f]]
\* the ids of a pre-order po counted from the id of its root
Offsets(po) == [i \in 1..Len(po) |-> nodes[po[i]].id - nodes[po[1]].id]

\* C2 (as claimed): two builds of the same document give, at each pre-order
\* position, the same id, the same name and the same level.
C2_SameIdsNamesLevels ==
    \A i, j \in 1..Len(roots) :
        LET a == PreOrder(nodes, roots[i])
            b == PreOrder(nodes, roots[j])
        IN /\ Field(a, "id") = Field(b, "id")
           /\ Field(a, "name") = Field(b, "name")
           /\ Field(a, "level") = Field(b, "level")

\* C2 (amended): two builds of the same document give, at each pre-order
\* position, the same name, the same level and the same id counted from the id
\* of the build's root; the ids themselves differ from build to build.
\* (Stated where create returns: nothing else changes the heap or the roots.)
C2_SameNamesLevelsOffsets ==
    \A i, j \in 1..Len(roots) :
        (pc = "factory" /\ i < j) =>
            LET a == PreOrder(nodes, roots[i])
                b == PreOrder(nodes, roots[j])
            IN /\ Field(a, "name") = Field(b, "name")
               /\ Field(a, "level") = Field(b, "level")
               /\ Offsets(a) = Offsets(b)
               /\ Range(a) \cap Range(b) = {}

C2_Witness ==
    /\ Len(roots) >= 2
    /\ Len(PreOrder(nodes, roots[1])) >= 4
    /\ \E n \in Tree(roots[2]) : nodes[n].level >= 2 /\ nodes[n].name = "Array[1]"

\* ---------------------------------------------------------------- C3
\* C3: render prints one line for each non-root node and none for the root, in
\* pre-order: at every moment the lines printed are those of the nodes visited,
\* the root left out, and the nodes visited are a prefix of the pre-order of the
\* tree; when render returns, a tree of N nodes has given N - 1 lines.
C3_OneLinePerNodeInPreOrder ==
    pc \in {"render", "done"} =>
        LET po == PreOrder(nodes, root.v)
            printed == [i \in 1..Len(output) |-> output[i].node]
        IN /\ IsPrefix(visited.render, po)
           /\ printed = SubSeq(po, 2, Len(visited.render))
           /\ pc = "done" => Len(output) = Len(po) - 1

C3_Witness ==
    /\ pc = "done"
    /\ Len(output) >= 4
    /\ \E i \in 1..Len(output) : nodes[output[i].node].level = 1 /\ i > 2
    /\ nodes[output[2].node].level = 2

\* ---------------------------------------------------------------- C4
\* C4: after the FirstLastVisitor traversal is_last holds of exactly one node of
\* the tree, the terminal node of the last-child chain from the root.
C4_ExactlyOneLast ==
    Analysed =>
        {n \in Tree(root.v) : is_last(fl_visitor, nodes[n])} = {LastChain(nodes, root.v)}

C4_Witness ==
    /\ pc = "styled"
    /\ nodes[LastChain(nodes, root.v)].level >= 2
    /\ ~is_leaf(nodes[LastChain(nodes, root.v)])
    /\ Len(nodes[root.v].children) >= 2

\* ---------------------------------------------------------------- C5
\* C5: after the FirstLastVisitor traversal is_first holds of the root and of no
\* other node, and no printed line took a globally-first branch of render_node.
C5_FirstIsRootOnly ==
    /\ Analysed => {n \in Tree(root.v) : is_first(fl_visitor, nodes[n])} = {root.v}
    /\ \A i \in 1..Len(output) :
           output[i].opening # "first" /\ output[i].closing # "first"

C5_Witness ==
    /\ pc = "done"
    /\ Len(output) >= 3
    /\ root.v > 0

\* ---------------------------------------------------------------- C7
\* C7: in every tree create returns, the level of a child is the level of its
\* parent plus one, and the root, a composite with the empty name, is the one
\* node at level 0.
\* (Stated where create returns: nothing else changes the heap or the roots.)
C7_Levels ==
    pc = "factory" => \A i \in 1..Len(roots) :
        /\ \A n \in Tree(roots[i]) : \A c \in Range(nodes[n].children) :
               nodes[c].level = nodes[n].level + 1
        /\ {n \in Tree(roots[i]) : nodes[n].level = 0} = {roots[i]}
        /\ ~is_leaf(nodes[roots[i]])
        /\ nodes[roots[i]].name = ""

C7_Witness ==
    /\ roots # <<>>
    /\ \E n \in Tree(roots[1]) : nodes[n].level = 3

\* ---------------------------------------------------------------- C8
\* C8: a document whose root is neither an object nor an array is rejected by
\* JSONNodeFactory.__init__: no node is made, nothing is visited, no line printed.
C8_ScalarRootRejected ==
    (filepath.isfile /\ ~IsContainer(filepath.json_data)) =>
        /\ pc \in {"start", "error"}
        /\ DOMAIN nodes = {}
        /\ id = 0
        /\ roots = <<>>
        /\ visited = [width |-> <<>>, firstlast |-> <<>>, render |-> <<>>]
        /\ output = <<>>

C8_Witness ==
    /\ filepath.isfile
    /\ filepath.json_data = JInt(12)
    /\ pc = "error"

\* ---------------------------------------------------------------- C9
\* C9: once rendering has begun (and so whenever a line has been printed) both
\* analysis passes have visited every node of the tree, and the grid width and
\* the first and last ids the renderer reads are the final ones of the tree.
C9_AnalysisBeforeOutput ==
    (pc \in {"render", "done"} \/ output # <<>>) =>
        LET po == PreOrder(nodes, root.v)
        IN /\ visited.width = po
           /\ visited.firstlast = po
           /\ render_visitor.grid_width
                  = WidthOfAll(nodes, <<root.v>>, 1, GridWidthVisitor.grid_width)
           /\ grid_width_visitor.grid_width = render_visitor.grid_width
           /\ fl_visitor.first_id = Some(po[1])
           /\ fl_visitor.last_id = Some(po[Len(po)])

C9_Witness ==
    /\ pc = "render"
    /\ Len(output) = 1
    /\ Len(PreOrder(nodes, root.v)) >= 4
    /\ render_visitor.grid_width > update_grid_width(GridWidthVisitor.grid_width, nodes[output[1].node])

\* ---------------------------------------------------------------- C6
InsertAt(seq, p, x) == SubSeq(seq, 1, p - 1) \o <<x>> \o SubSeq(seq, p, Len(seq))
KeysOf(items) == {items[i][1] : i \in 1..Len(items)}

\* the scalars with a longer text than obj's
Lengthened(obj) ==
    CASE obj.t = "int" -> {JInt(obj.n * 10)}
      [] obj.t = "str" -> {JStr(obj.s \o "!")}
      [] obj.t = "bool" -> (IF obj.b THEN {JBool(FALSE)} ELSE {})
      [] OTHER -> {}

RECURSIVE Grown(_)
\* the values a node is added with: a scalar or an empty container
Added == Scalars \cup {JList(<<>>)}

\* the documents that are obj with one node added (at any place of any
\* container), or with one key or one scalar lengthened
Grown(obj) ==
    IF obj.t = "list" THEN
        {JList(InsertAt(obj.items, p, v)) :
            p \in 1..(Len(obj.items) + 1), v \in Added}
        \cup UNION {{JList([obj.items EXCEPT ![i] = g]) : g \in Grown(obj.items[i])}
                    : i \in 1..Len(obj.items)}
    ELSE IF obj.t = "dict" THEN
        {JDict(InsertAt(obj.items, p, <<k, v>>)) :
            p \in 1..(Len(obj.items) + 1),
            k \in (Keys \cup {"zz"}) \ KeysOf(obj.items),
            v \in Added}
        \cup UNION {{JDict([obj.items EXCEPT ![i] = <<obj.items[i][1], g>>])
                     : g \in Grown(obj.items[i][2])} : i \in 1..Len(obj.items)}
        \cup {JDict([obj.items EXCEPT ![i] = <<obj.items[i][1] \o "x", obj.items[i][2]>>])
              : i \in {j \in 1..Len(obj.items) :
                           (obj.items[j][1] \o "x") \notin KeysOf(obj.items)}}
    ELSE Lengthened(obj)

C6_Floor ==
    grid_width_visitor # None =>
        grid_width_visitor.grid_width >= GridWidthVisitor.grid_width

C6_Grown ==
    pc = "styled" =>
        \A g \in Grown(filepath.json_data) :
            WidthOfDocument(g) >= grid_width_visitor.grid_width

C6_Step ==
    (grid_width_visitor # None /\ grid_width_visitor' # None) =>
        grid_width_visitor'.grid_width >= grid_width_visitor.grid_width

\* C6: grid_width is at least 16 in every state of the visitor, never decreases
\* from one step to the next, and the final grid_width of a document is not
\* above that of the document with a node added or a name or value lengthened.
C6_FlooredAndMonotonic == [](C6_Floor /\ C6_Grown) /\ [][C6_Step]_vars

C6_Witness ==
    /\ pc = "styled"
    /\ grid_width_visitor.grid_width > GridWidthVisitor.grid_width
    /\ \E g \in Grown(filepath.json_data) :
           WidthOfDocument(g) > grid_width_visitor.grid_width
    /\ \E g \in Grown(filepath.json_data) :
           WidthOfDocument(g) = grid_width_visitor.grid_width
====
